---- MODULE Spec2Model ----
(***************************************************************************)
(* Model of evennia/prototypes/prototypes.py: the registry of prototypes   *)
(* declared in modules, the persisted DbPrototype store with its           *)
(* create / delete / search gateway, and the parent-chain validator.       *)
(*                                                                         *)
(* Strings that the code lower-cases or searches by substring (prototype   *)
(* keys) are sequences of one-character strings, so that str.lower() and   *)
(* the `in` / icontains tests are computed and not assumed.                *)
(***************************************************************************)
EXTENDS Integers, Sequences, FiniteSets, TLC

VARIABLES
    modulePrototypes,     \* _MODULE_PROTOTYPES: lower-cased key -> prototype dict
    globalPrototypeKey,   \* module global `prototype_key` left by l.225 and l.230: <<>> unbound, <<k>> bound
    store,                \* the DbPrototype table: a set of script records
    lastOp,               \* name of the gateway function called last
    raised,               \* exception class the last call raised, "none" if it returned
    returned,             \* list of prototype dicts the last call returned; <<[result |-> b]>> for a boolean b
    nops,                 \* number of gateway calls made so far
    vcall,                \* validate_prototype: the arguments of the top-level call
    stack,                \* validate_prototype: the call stack, innermost frame last
    heap,                 \* validate_prototype: the _flags dicts allocated so far
    vraised,              \* validate_prototype: what the top-level call raised ("running" before that)
    vmessage,             \* validate_prototype: the messages joined into the raised exception
    pop,                  \* value helpers: the function called ("idle" before the call)
    pin,                  \* value helpers: its argument
    pout,                 \* value helpers: what it returned
    praised,              \* value helpers: the exception it raised, "none" if it returned
    racers,               \* interleaved create_prototype calls: per call its position and locals
    writeOrder            \* interleaved create_prototype calls: who executed l.324, in order

vars == <<modulePrototypes, globalPrototypeKey, store, lastOp, raised, returned, nops,
          vcall, stack, heap, vraised, vmessage, pop, pin, pout, praised,
          racers, writeOrder>>

storeVars == <<modulePrototypes, globalPrototypeKey, store, lastOp, raised, returned, nops>>
validateVars == <<vcall, stack, heap, vraised, vmessage>>
valueVars == <<pop, pin, pout, praised>>
raceVars == <<racers, writeOrder>>

-----------------------------------------------------------------------------
(* Bounds *)

MaxOps == 3

\* frames the interpreter allows on the call stack (sys.getrecursionlimit())
MaxStack == 4

\* pieces a string handed to the #dbref rewriting is made of
MaxPieces == 4

-----------------------------------------------------------------------------
(* Python helpers *)

LowerChar(c) ==
    CASE c = "G" -> "g"
      [] c = "E" -> "e"
      [] c = "X" -> "x"
      [] OTHER -> c

\* str.lower()
Lower(s) == [i \in 1..Len(s) |-> LowerChar(s[i])]

\* `needle in hay` for strings
Contains(hay, needle) ==
    \E i \in 0..(Len(hay) - Len(needle)) : SubSeq(hay, i + 1, i + Len(needle)) = needle

EmptyDict == [x \in {} |-> 0]

\* dict.get(name, default)
Get(d, name, default) == IF name \in DOMAIN d THEN d[name] ELSE default

\* dict.update(other), as a new dict
Update(d, other) ==
    [x \in (DOMAIN d) \cup (DOMAIN other) |-> IF x \in DOMAIN other THEN other[x] ELSE d[x]]

Range(s) == {s[i] : i \in 1..Len(s)}

\* Python values, tagged with their type
IntV(n) == [kind |-> "int", n |-> n]
StrV(text) == [kind |-> "str", text |-> text]
NoneV == [kind |-> "none"]
CallableV(name) == [kind |-> "callable", name |-> name]
ObjV(id) == [kind |-> "obj", id |-> id]
ListV(items) == [kind |-> "list", items |-> items]
TupleV(items) == [kind |-> "tuple", items |-> items]
DictV(pairs) == [kind |-> "dict", pairs |-> pairs]
\* what calling the callable `name` with the arguments `args` returns
CalledV(name, args) == [kind |-> "result", of |-> name, args |-> args]

RECURSIVE SeqOfSet(_)
\* a list holding the elements of a set once each (list(set(...)), dict.values())
SeqOfSet(S) ==
    IF S = {} THEN <<>>
    ELSE LET x == CHOOSE y \in S : TRUE IN <<x>> \o SeqOfSet(S \ {x})

RECURSIVE SelectSeqOf(_, _)
\* the elements of list s that are in set S, in the order of s
SelectSeqOf(s, S) ==
    IF s = <<>> THEN <<>>
    ELSE (IF Head(s) \in S THEN <<Head(s)>> ELSE <<>>) \o SelectSeqOf(Tail(s), S)

-----------------------------------------------------------------------------
(* Constants of the module *)

_PROTOTYPE_TAG_CATEGORY == "from_prototype"
_PROTOTYPE_TAG_META_CATEGORY == "db_prototype"

\* A tag as a caller writes it: a bare string, or a tuple (name, category)
StrTag(name) == [kind |-> "str", val |-> <<name>>]
TupleTag(name, category) == [kind |-> "tuple", val |-> <<name, category>>]

\* A lock string is a list of (access_type, lock function) clauses
DefaultLocks == << <<"spawn", "all()">>, <<"edit", "perm(Admin)">> >>
ModuleDefaultLocks == << <<"use", "all()">>, <<"edit", "false()">> >>
EditAllLocks == << <<"edit", "all()">> >>
MalformedLocks == << <<"edit", "all(">> >>

KnownLockFuncs == {"all()", "false()", "perm(Admin)"}

\* evennia.locks.lockhandler.validate_lockstring
validate_lockstring(lockstring) ==
    \A i \in 1..Len(lockstring) : lockstring[i][2] \in KnownLockFuncs

-----------------------------------------------------------------------------
(* Module-based prototypes (l.222-238) *)

gK == <<"g">>
geK == <<"g", "e">>
eK == <<"e">>
xK == <<"x">>
GK == <<"G">>
GEK == <<"G", "E">>
EK == <<"E">>
NoKey == <<>>

ModulePath == "world.prototypes"

\* The contents of the one module of settings.PROTOTYPE_MODULES that the model
\* loads: the items of all_from_module(mod), in the order of iteration. A
\* variable bound to a dict has the field `prot`, any other variable the field
\* `value`.
ModuleChoices ==
    { <<>>,
      << [var |-> <<"n">>, value |-> 5], [var |-> eK, prot |-> EmptyDict] >>,
      << [var |-> GEK, prot |-> [typeclass |-> "Good"]] >>,
      << [var |-> gK, prot |-> [typeclass |-> "Good", prototype_tags |-> <<StrTag("t")>>]] >>,
      << [var |-> geK, prot |-> [prototype_key |-> EK, typeclass |-> "Good"]] >>,
      << [var |-> GEK, prot |-> [typeclass |-> "Good", prototype_parent |-> <<xK>>]],
         [var |-> xK, prot |-> [typeclass |-> "Good", prototype_locks |-> EditAllLocks]] >> }

\* l.225-226: the items kept, `if prot and isinstance(prot, dict)`
Prots(items) ==
    SelectSeq(items, LAMBDA item : "prot" \in DOMAIN item /\ item.prot # EmptyDict)

RECURSIVE LoadModule(_, _)
\* the loop of l.230-238 over the (prototype_key, prot) pairs of one module
LoadModule(prots, registry) ==
    IF prots = <<>> THEN registry
    ELSE LET prototype_key == Head(prots).var
             prot == Head(prots).prot
             actual_prot_key == Lower(Get(prot, "prototype_key", prototype_key))
             meta == [prototype_key |-> actual_prot_key,
                      prototype_desc |-> Get(prot, "prototype_desc", ModulePath),
                      prototype_locks |-> Get(prot, "prototype_locks", ModuleDefaultLocks),
                      prototype_tags |->
                          SeqOfSet(Range(Get(prot, "prototype_tags", <<>>)) \cup {StrTag("module")})]
         IN LoadModule(Tail(prots), Update(registry, actual_prot_key :> Update(prot, meta)))

\* The name `prototype_key` is what delete_prototype reads (l.351-364); the
\* function has no local of that name, so it sees the module global. The list
\* comprehension of l.225 binds it to every variable of the module in turn,
\* kept by the filter of l.226 or not (in python 2 a list comprehension binds
\* its variables in the enclosing scope), and the loop of l.230 binds it again
\* to every item kept. The name is unbound only for a module without variables.
LoopVariable(items) ==
    IF Prots(items) # <<>> THEN <<Prots(items)[Len(Prots(items))].var>>
    ELSE IF items # <<>> THEN <<items[Len(items)].var>>
    ELSE <<>>

-----------------------------------------------------------------------------
(* The DbPrototype table and its handlers *)

\* DbPrototype.objects.filter(db_key=key): exact, case-sensitive match
FilterDbKey(records, key) == {r \in records : r.db_key = key}

\* DbPrototype.objects.filter(db_key__icontains=key)
FilterDbKeyIContains(records, key) ==
    {r \in records : Contains(Lower(r.db_key), Lower(key))}

RECURSIVE OrderById(_)
\* a queryset evaluated as a list: rows in id order
OrderById(records) ==
    IF records = {} THEN <<>>
    ELSE LET r == CHOOSE q \in records : \A o \in records : q.id <= o.id
         IN <<r>> \o OrderById(records \ {r})

NewId(records) ==
    IF records = {} THEN 1
    ELSE 1 + (CHOOSE n \in {r.id : r \in records} : \A r \in records : r.id <= n)

\* the (key, category) under which TagHandler.batch_add stores one tuple
TagOfTuple(t) == <<t.val[1], IF Len(t.val) >= 2 THEN t.val[2] ELSE "None">>

\* TagHandler.batch_add(*tuples)
TagsBatchAdd(tags, tuples) == tags \cup {TagOfTuple(tuples[i]) : i \in 1..Len(tuples)}

\* TagHandler.clear(category=...)
TagsClear(tags, category) == {t \in tags : t[2] # category}

\* LockHandler.add(lockstring): each clause replaces the lock of its access type
LocksAdd(locks, lockstring) ==
    Update(locks, [a \in {lockstring[i][1] : i \in 1..Len(lockstring)} |->
                      lockstring[CHOOSE i \in 1..Len(lockstring) :
                                    /\ lockstring[i][1] = a
                                    /\ \A j \in (i + 1)..Len(lockstring) : lockstring[j][1] # a][2]])

\* a row as the table makes it, before the typeclass has acted on it
BlankRow(id) ==
    [id |-> id, db_key |-> NoKey, desc |-> "", tags |-> {}, locks |-> EmptyDict,
     prototype |-> EmptyDict]

EmptyPrototypeKey ==
    <<"e", "m", "p", "t", "y", " ", "p", "r", "o", "t", "o", "t", "y", "p", "e">>

\* DbPrototype.at_script_creation, l.248-251
at_script_creation(row) ==
    [row EXCEPT !.db_key = EmptyPrototypeKey, !.desc = "A prototype", !.prototype = EmptyDict]

\* create_script(DbPrototype, key=, desc=, locks=, tags=, attributes=[("prototype", ...)]):
\* the new row runs the hook of its typeclass on its first save, and then each
\* argument of the call that is not empty replaces what the hook has set
create_script(records, key, desc, locks, tags, prototype) ==
    LET hooked == at_script_creation(BlankRow(NewId(records)))
    IN [hooked EXCEPT
          !.db_key = IF key # NoKey THEN key ELSE @,
          !.desc = IF desc # "" THEN desc ELSE @,
          !.locks = IF locks # <<>> THEN LocksAdd(@, locks) ELSE @,
          !.tags = IF tags # <<>> THEN TagsBatchAdd(@, tags) ELSE @,
          !.prototype = prototype]

-----------------------------------------------------------------------------
(* create_prototype (l.257-331) *)

\* what a gateway call leaves behind: the exception raised ("none" if it
\* returned), the table afterwards and the list of dicts returned
Result(exc, records, ret) == [raised |-> exc, store |-> records, returned |-> ret]

\* _to_batchtuple(inp, *args), l.277-282
_to_batchtuple(inp, category) ==
    IF inp.kind = "tuple" THEN inp
    ELSE [kind |-> "tuple", val |-> inp.val \o <<category>>]

\* l.314 as it would be if the stored dict were dropped instead of updated
CreateReplaced(kwargs, prototype) ==
    LET desc == Get(kwargs, "prototype_desc", Get(prototype, "prototype_desc", ""))
        prototype_locks == Get(kwargs, "prototype_locks",
                               Get(prototype, "prototype_locks", DefaultLocks))
        given == Get(kwargs, "prototype_tags", Get(prototype, "prototype_tags", <<>>))
        prototype_tags == [i \in 1..Len(given) |->
                              _to_batchtuple(given[i], _PROTOTYPE_TAG_META_CATEGORY)]
    IN Update(kwargs, [prototype_desc |-> desc,
                       prototype_locks |-> prototype_locks,
                       prototype_tags |-> prototype_tags])

\* the dict that l.314 builds and l.324 / l.330 store, for a call that gets that far
CreateMerged(kwargs, prototype) ==
    LET desc == Get(kwargs, "prototype_desc", Get(prototype, "prototype_desc", ""))
        prototype_locks == Get(kwargs, "prototype_locks",
                               Get(prototype, "prototype_locks", DefaultLocks))
        given == Get(kwargs, "prototype_tags", Get(prototype, "prototype_tags", <<>>))
        prototype_tags == [i \in 1..Len(given) |->
                              _to_batchtuple(given[i], _PROTOTYPE_TAG_META_CATEGORY)]
        kwargs2 == Update(kwargs, [prototype_desc |-> desc,
                                   prototype_locks |-> prototype_locks,
                                   prototype_tags |-> prototype_tags])
    IN Update(prototype, kwargs2)

\* l.319: stored_prototype.desc = prototype['prototype_desc']
EditDesc(row, prototype) == [row EXCEPT !.desc = prototype["prototype_desc"]]

\* l.321: stored_prototype.tags.clear(category=_PROTOTYPE_TAG_CATEGORY)
EditTagsClear(row) == [row EXCEPT !.tags = TagsClear(@, _PROTOTYPE_TAG_CATEGORY)]

\* l.322: stored_prototype.tags.batch_add(*prototype['prototype_tags'])
EditTagsAdd(row, prototype) ==
    [row EXCEPT !.tags = TagsBatchAdd(@, prototype["prototype_tags"])]

\* l.320-322: the tags, when the merged dict has any
EditTags(row, prototype) ==
    IF prototype["prototype_tags"] # <<>>
    THEN EditTagsAdd(EditTagsClear(row), prototype)
    ELSE row

\* l.323: stored_prototype.locks.add(prototype['prototype_locks'])
EditLocks(row, prototype) ==
    [row EXCEPT !.locks = LocksAdd(row.locks, prototype["prototype_locks"])]

\* l.324 as it would be if the stored dict were updated in place
EditMappingInPlace(row, prototype) ==
    [row EXCEPT !.prototype = Update(row.prototype, prototype)]

\* l.324: stored_prototype.attributes.add('prototype', prototype)
EditMapping(row, prototype) == [row EXCEPT !.prototype = prototype]

\* l.316-324: edit the first row found
CreateEditRow(row, prototype) ==
    EditMapping(EditLocks(EditTags(EditDesc(row, prototype), prototype), prototype), prototype)

\* l.325-330: a new row
CreateNewRow(records, prototype_key, prototype) ==
    create_script(records, prototype_key, prototype["prototype_desc"],
                  prototype["prototype_locks"], prototype["prototype_tags"], prototype)

\* l.288: prototype_key = str(prototype_key).lower()
NormalizeKeyVerbatim(given_key) == given_key
NormalizeKey(given_key) == Lower(given_key)

\* l.291: prototype_key in _MODULE_PROTOTYPES
IsReadOnlyNever(prototype_key, registry) == FALSE
IsReadOnly(prototype_key, registry) == prototype_key \in DOMAIN registry

\* l.303-305 with every lock string taken as valid
LocksRejectedNever(prototype_locks) == FALSE

\* l.303-305: is_valid, err = validate_lockstring(prototype_locks); if not is_valid: raise
LocksRejected(prototype_locks) == ~validate_lockstring(prototype_locks)

create_prototype(kwargs, records, registry) ==
    LET given_key == Get(kwargs, "prototype_key", NoKey)
    IN IF given_key = NoKey
       THEN Result("ValidationError", records, <<>>)
       ELSE
       LET prototype_key == NormalizeKey(given_key)
       IN IF IsReadOnly(prototype_key, registry)
          THEN Result("PermissionError", records, <<>>)
          ELSE
          LET stored_prototype == OrderById(FilterDbKey(records, prototype_key))
              prototype == IF stored_prototype # <<>>
                           THEN stored_prototype[1].prototype ELSE EmptyDict
              prototype_locks == Get(kwargs, "prototype_locks",
                                     Get(prototype, "prototype_locks", DefaultLocks))
              merged == CreateMerged(kwargs, prototype)
          IN IF LocksRejected(prototype_locks)
             THEN Result("ValidationError", records, <<>>)
             ELSE IF stored_prototype # <<>>
                  THEN LET row == CreateEditRow(stored_prototype[1], merged)
                       IN Result("none", (records \ {stored_prototype[1]}) \cup {row},
                                 <<row.prototype>>)
                  ELSE LET row == CreateNewRow(records, prototype_key, merged)
                       IN Result("none", records \cup {row}, <<row.prototype>>)

-----------------------------------------------------------------------------
(* delete_prototype (l.337-365) *)

\* `caller` is None or an Account/Object
NoCaller == "None"
Callers == {NoCaller, "admin", "player"}

\* evennia.locks: one lock function evaluated for an accessing object
LockFuncPasses(func, caller) ==
    CASE func = "all()" -> TRUE
      [] func = "perm(Admin)" -> caller = "admin"
      [] OTHER -> FALSE

\* TypedObject.access(caller, access_type) against the locks of a stored row
Access(row, caller, access_type) ==
    access_type \in DOMAIN row.locks /\ LockFuncPasses(row.locks[access_type], caller)

\* a boolean returned by delete_prototype (l.365) or check_permission
Verdict(b) == <<[result |-> b]>>

\* The parameter is `key`, the body reads `prototype_key`: the module global.
delete_prototype(key, caller, records, registry, global_prototype_key) ==
    IF global_prototype_key = <<>>
    THEN Result("NameError", records, <<>>)
    ELSE
    LET prototype_key == global_prototype_key[1]
    IN IF prototype_key \in DOMAIN registry
       THEN Result("PermissionError", records, <<>>)
       ELSE
       LET stored_prototype == FilterDbKey(records, prototype_key)
       IN IF stored_prototype = {}
          THEN Result("PermissionError", records, <<>>)
          ELSE IF caller # NoCaller
               \* l.361: stored_prototype is a QuerySet, which has no `access`
               THEN Result("AttributeError", records, <<>>)
               \* l.364: QuerySet.delete() deletes every row of the queryset
               \* l.365: return True
               ELSE Result("none", records \ stored_prototype, Verdict(TRUE))

-----------------------------------------------------------------------------
(* search_prototype (l.368-436) *)

\* tagset.intersection(prototype.get("prototype_tags", [])): the requested
\* tags are strings, and a string equals a tag only if the tag is a string
ModuleTagMatch(tags, prototype) ==
    \E i \in 1..Len(tags) :
        \E t \in Range(Get(prototype, "prototype_tags", <<>>)) :
            t.kind = "str" /\ t.val[1] = tags[i]

\* DbPrototype.objects.get_by_tag(tags, ["db_prototype", ...])
get_by_tag(records, tags) ==
    {r \in records : \A i \in 1..Len(tags) : <<tags[i], "db_prototype">> \in r.tags}

search_prototype(key, tags, records, registry) ==
    LET mod_keys == IF tags # <<>>
                    THEN {k \in DOMAIN registry : ModuleTagMatch(tags, registry[k])}
                    ELSE DOMAIN registry
        module_keys == IF key # NoKey
                       THEN IF key \in mod_keys THEN {key}
                            ELSE {k \in mod_keys : Contains(k, key)}
                       ELSE mod_keys
        module_prototypes == SeqOfSet({registry[k] : k \in module_keys})
        tagged == IF tags # <<>> THEN get_by_tag(records, tags) ELSE records
        db_matches == IF key # NoKey
                      THEN IF FilterDbKey(tagged, key) # {}
                           THEN FilterDbKey(tagged, key)
                           ELSE FilterDbKeyIContains(tagged, key)
                      ELSE tagged
        ordered == OrderById(db_matches)
        db_prototypes == [i \in 1..Len(ordered) |-> ordered[i].prototype]
        matches == db_prototypes \o module_prototypes
        nmatches == Len(matches)
        lkey == Lower(key)
        filter_matches == SelectSeq(matches,
                              LAMBDA mta : Get(mta, "prototype_key", NoKey) # NoKey
                                           /\ mta["prototype_key"] = lkey)
    IN IF nmatches > 1 /\ key # NoKey
          /\ filter_matches # <<>> /\ Len(filter_matches) < nmatches
       THEN filter_matches
       ELSE matches

-----------------------------------------------------------------------------
(* check_permission (l.160-189) *)

PermissionActions == {"spawn", "edit"}

\* check_permission(prototype_key, action, default)
check_permission(prototype_key, action, default, records, registry) ==
    IF action = "edit" /\ prototype_key \in DOMAIN registry
    THEN Result("none", records, Verdict(FALSE))
    ELSE LET prototype == search_prototype(prototype_key, <<>>, records, registry)
         IN IF prototype = <<>>
            THEN Result("none", records, Verdict(FALSE))
            \* l.185: prototype is the list that search_prototype returned, and
            \* a list has no attribute `get`; l.187-189 are not reached
            ELSE Result("AttributeError", records, <<>>)

-----------------------------------------------------------------------------
(* The gateway as a state machine: one action per call *)

\* keyword arguments other than prototype_key that a caller passes
AttributeBundles ==
    { EmptyDict,
      [a |-> 1],
      [b |-> 2],
      [a |-> 2, prototype_tags |-> <<StrTag("t")>>],
      [prototype_tags |-> <<>>],
      [prototype_locks |-> MalformedLocks],
      [prototype_desc |-> "d", prototype_locks |-> EditAllLocks,
       prototype_tags |-> <<TupleTag("u", "db_prototype")>>] }

CreateKeys == {NoKey, gK, GK, geK, eK}

CreateInputs ==
    AttributeBundles \cup
    {Update(bundle, [prototype_key |-> k]) : bundle \in AttributeBundles, k \in CreateKeys}

DeleteKeys == {gK, geK, eK}
SearchKeys == {NoKey, gK, GK, geK, eK}
SearchTags == {<<>>, <<"t">>}

Idle == "idle"

Init ==
    /\ \E items \in ModuleChoices :
          /\ modulePrototypes = LoadModule(Prots(items), EmptyDict)
          /\ globalPrototypeKey = LoopVariable(items)
    /\ store = {}
    /\ lastOp = "none"
    /\ raised = "none"
    /\ returned = <<>>
    /\ nops = 0
    /\ vcall = <<>>
    /\ stack = <<>>
    /\ heap = <<>>
    /\ vraised = Idle
    /\ vmessage = <<>>
    /\ pop = Idle
    /\ pin = NoneV
    /\ pout = NoneV
    /\ praised = "none"
    /\ racers = <<>>
    /\ writeOrder = <<>>

Finish(op, result) ==
    /\ lastOp' = op
    /\ raised' = result.raised
    /\ store' = result.store
    /\ returned' = result.returned
    /\ nops' = nops + 1
    /\ UNCHANGED <<modulePrototypes, globalPrototypeKey>>
    /\ UNCHANGED <<validateVars, valueVars, raceVars>>

CreateCall(kwargs) ==
    /\ nops < MaxOps
    /\ Finish("create_prototype", create_prototype(kwargs, store, modulePrototypes))

DeleteCall(key, caller) ==
    /\ nops < MaxOps
    /\ Finish("delete_prototype",
              delete_prototype(key, caller, store, modulePrototypes, globalPrototypeKey))

SearchCall(key, tags) ==
    /\ nops < MaxOps
    /\ Finish("search_prototype",
              Result("none", store, search_prototype(key, tags, store, modulePrototypes)))

CheckPermissionCall(key, action, default) ==
    /\ nops < MaxOps
    /\ Finish("check_permission",
              check_permission(key, action, default, store, modulePrototypes))

Create == \E kwargs \in CreateInputs : CreateCall(kwargs)
Delete == \E key \in DeleteKeys, caller \in Callers : DeleteCall(key, caller)
Search == \E key \in SearchKeys, tags \in SearchTags : SearchCall(key, tags)
CheckPermission ==
    \E key \in SearchKeys, action \in PermissionActions, default \in BOOLEAN :
        CheckPermissionCall(key, action, default)

Next == Create \/ Delete \/ Search \/ CheckPermission

Spec == Init /\ [][Next]_vars

-----------------------------------------------------------------------------
(* Properties of the gateway *)

CallKey(kwargs) == Lower(Get(kwargs, "prototype_key", NoKey))

\* C1: create_prototype with a prototype_key whose lower-cased form is a key of
\* the module registry raises PermissionError and changes neither the table
\* nor the registry.
C1_CreateOnModuleKeyRejected ==
    [][\A kwargs \in CreateInputs :
          (CreateCall(kwargs) /\ CallKey(kwargs) \in DOMAIN modulePrototypes)
          => /\ raised' = "PermissionError"
             /\ store' = store
             /\ modulePrototypes' = modulePrototypes]_vars

\* a create on a module key was rejected while the table held a row
C1_Witness ==
    /\ lastOp = "create_prototype"
    /\ raised = "PermissionError"
    /\ store # {}

\* the row stored under a key, for a table that holds exactly one
RowOf(records, key) == CHOOSE r \in records : r.db_key = key

\* C2 as stated: after an update of an existing key with keyword arguments U,
\* the stored and returned dict has every attribute of U with U's value and
\* every other attribute of the old dict M with M's value.
C2_MergeVerbatim ==
    [][\A kwargs \in CreateInputs :
          (/\ CreateCall(kwargs)
           /\ raised' = "none"
           /\ FilterDbKey(store, CallKey(kwargs)) # {})
          => LET M == RowOf(store, CallKey(kwargs)).prototype
                 N == RowOf(store', CallKey(kwargs)).prototype
             IN /\ returned' = <<N>>
                /\ \A x \in DOMAIN kwargs : x \in DOMAIN N /\ N[x] = kwargs[x]
                /\ \A x \in (DOMAIN M) \ (DOMAIN kwargs) : x \in DOMAIN N /\ N[x] = M[x]]_vars

\* the value stored for attribute x when the caller passes U[x]
StoredValue(U, x) ==
    IF x = "prototype_tags"
    THEN [i \in 1..Len(U[x]) |-> _to_batchtuple(U[x][i], _PROTOTYPE_TAG_META_CATEGORY)]
    ELSE U[x]

\* C2 amended: an update merges. The stored and returned dict has every
\* attribute of U with U's value, prototype_tags with each bare tag of U turned
\* into the tuple (tag, "db_prototype"), and every attribute of the old dict
\* not named in U with its old value.
C2_Merge ==
    [][\A kwargs \in CreateInputs :
          (/\ CreateCall(kwargs)
           /\ raised' = "none"
           /\ FilterDbKey(store, CallKey(kwargs)) # {})
          => LET M == RowOf(store, CallKey(kwargs)).prototype
                 N == RowOf(store', CallKey(kwargs)).prototype
             IN /\ returned' = <<N>>
                /\ \A x \in DOMAIN kwargs : x \in DOMAIN N /\ N[x] = StoredValue(kwargs, x)
                /\ \A x \in (DOMAIN M) \ (DOMAIN kwargs) : x \in DOMAIN N /\ N[x] = M[x]]_vars

\* create(k, a=1) then create(k, b=2): the stored dict has a = 1 and b = 2
C2_Witness ==
    /\ lastOp = "create_prototype"
    /\ raised = "none"
    /\ nops = 2
    /\ \E r \in store :
          /\ returned = <<r.prototype>>
          /\ {"a", "b"} \subseteq DOMAIN r.prototype
          /\ r.prototype["a"] = 1
          /\ r.prototype["b"] = 2

\* C3: delete_prototype raises PermissionError and leaves the table as it was
\* when the key is a module key, when no row has the key, and when a caller is
\* given that fails the 'edit' lock of the stored row.
C3_DeleteRejects ==
    [][\A key \in DeleteKeys, caller \in Callers :
          (/\ DeleteCall(key, caller)
           /\ \/ key \in DOMAIN modulePrototypes
              \/ FilterDbKey(store, key) = {}
              \/ /\ caller # NoCaller
                 /\ \E r \in FilterDbKey(store, key) : ~Access(r, caller, "edit"))
          => /\ raised' = "PermissionError"
             /\ store' = store]_vars

\* C4: a search by a key that is exactly the key of a module prototype or of a
\* stored row returns one dict, and that dict is the exact match.
C4_ExactMatchAlone ==
    \A k \in SearchKeys \ {NoKey} :
        (k \in DOMAIN modulePrototypes \/ FilterDbKey(store, k) # {})
        => LET matches == search_prototype(k, <<>>, store, modulePrototypes)
           IN /\ Len(matches) = 1
              /\ \/ k \in DOMAIN modulePrototypes /\ matches[1] = modulePrototypes[k]
                 \/ \E r \in FilterDbKey(store, k) : matches[1] = r.prototype

\* C10: the table never holds two rows with one key, nor a row whose key is a
\* key of the module registry.
C10_KeysUnique ==
    /\ \A r1, r2 \in store : r1.db_key = r2.db_key => r1 = r2
    /\ \A r \in store : r.db_key \notin DOMAIN modulePrototypes

\* an update and a second create have happened next to a module registry
C10_Witness ==
    /\ modulePrototypes # EmptyDict
    /\ Cardinality(store) = 2
    /\ \E r \in store : {"a", "b"} \subseteq DOMAIN r.prototype

\* C11: a search with a non-empty tag list returns no prototype whose
\* prototype_tags is empty, whatever the key, from the registry or the table.
C11_TagSearchSkipsUntagged ==
    \A k \in SearchKeys, t \in SearchTags \ {<<>>} :
        LET matches == search_prototype(k, t, store, modulePrototypes)
        IN \A i \in 1..Len(matches) : Get(matches[i], "prototype_tags", <<>>) # <<>>

-----------------------------------------------------------------------------
(* validate_prototype (l.519-603) *)

\* A prototype dict as an object: `oid` is what id() returns for it
Obj(oid, dict) == [oid |-> oid, dict |-> dict]
NoneObj == Obj(<<"None">>, EmptyDict)

KnownTypeclasses == {"Good"}

\* get_all_typeclasses("evennia.objects.models.ObjectDB")
get_all_typeclasses == KnownTypeclasses

Unset == <<"[UNSET]">>

\* l.543: the work dict a call makes when it is handed no _flags
FreshFlags == [visited |-> <<>>, depth |-> 0, typeclass |-> "", errors |-> <<>>, warnings |-> <<>>]

\* l.546: {prototype['prototype_key']: prototype for prototype in search_prototype()}.
\* Module prototypes are the dicts of the registry, stored ones are copies.
DefaultParents(records, registry) ==
    LET rows == [k \in {r.db_key : r \in records} |->
                    Obj(<<"db">> \o k, RowOf(records, k).prototype)]
        mods == [k \in DOMAIN registry |-> Obj(<<"module">> \o k, registry[k])]
        all == SeqOfSet({rows[k] : k \in DOMAIN rows} \cup {mods[k] : k \in DOMAIN mods})
    IN [k \in {all[i].dict["prototype_key"] : i \in 1..Len(all)} |->
           all[CHOOSE i \in 1..Len(all) :
                 /\ all[i].dict["prototype_key"] = k
                 /\ \A j \in (i + 1)..Len(all) : all[j].dict["prototype_key"] # k]]

\* str.format raises IndexError when the string has more fields than the call
\* has positional arguments
FormatRaises(fields, positional) == positional < fields

\* A frame of validate_prototype. `flags` is the index in the heap of the dict
\* bound to _flags, 0 while the parameter is None.
Frame(prototype, protkey, parents, is_prototype_base, flags) ==
    [prototype |-> prototype, protkey |-> protkey, protparents |-> parents,
     is_prototype_base |-> is_prototype_base, flags |-> flags,
     pc |-> "enter", key |-> NoKey, typeclass |-> "", todo |-> <<>>]

\* l.587: validate_prototype(protparent, protstring, protparents, _flags).
\* The fourth positional parameter of the signature (l.519-520) is
\* is_prototype_base: the caller's _flags dict is bound to it (a dict with five
\* keys, which is true), and the parameter _flags keeps its default, None.
RecursiveCall(protparent, protstring, parents, caller_flags) ==
    Frame(protparent, <<protstring>>, parents, TRUE, 0)

Top == stack[Len(stack)]

SetTop(frame) == [stack EXCEPT ![Len(stack)] = frame]

\* an exception leaves every frame
RaiseV(exc, message, newheap) ==
    /\ stack' = <<>>
    /\ heap' = newheap
    /\ vraised' = exc
    /\ vmessage' = message
    /\ UNCHANGED vcall
    /\ UNCHANGED <<storeVars, valueVars, raceVars>>

AddError(flags, kind, protkey) == [flags EXCEPT !.errors = Append(@, <<kind, protkey>>)]
AddWarning(flags, kind, protkey) == [flags EXCEPT !.warnings = Append(@, <<kind, protkey>>)]

\* l.557-563 with both branches reporting an error
MissingBaseAlwaysError(flags, typeclass, prototype_parent, is_prototype_base, protkey) ==
    IF typeclass = "" /\ prototype_parent = <<>>
    THEN AddError(flags, "requires typeclass or prototype_parent", protkey)
    ELSE flags

\* l.557-563
MissingBase(flags, typeclass, prototype_parent, is_prototype_base, protkey) ==
    IF typeclass = "" /\ prototype_parent = <<>>
    THEN IF is_prototype_base
         THEN AddError(flags, "requires typeclass or prototype_parent", protkey)
         ELSE AddWarning(flags, "can only be used as a mixin", protkey)
    ELSE flags

\* l.570-574 with the prototype recorded as visited before the test
AlreadyVisitedAfterAppend(flags, oid) == oid \in Range(Append(flags.visited, oid))

\* l.570: id(prototype) in _flags['visited']
AlreadyVisited(flags, oid) == oid \in Range(flags.visited)

\* the top-level calls the model makes
PoolKeys == {gK, eK}
PoolTypeclasses == {"", "Good", "Bad"}
PoolParents == {<<>>, <<gK>>, <<eK>>, <<GK>>, <<xK>>, <<eK, gK>>}

PoolDict(k, typeclass, parent) ==
    Update(Update([prototype_key |-> k],
                  IF typeclass = "" THEN EmptyDict ELSE [typeclass |-> typeclass]),
           IF parent = <<>> THEN EmptyDict ELSE [prototype_parent |-> parent])

PoolOf(dicts) == [k \in DOMAIN dicts |-> Obj(<<"pool">> \o k, dicts[k])]

TwoKeyPools ==
    {PoolOf(gK :> PoolDict(gK, t1, p1) @@ eK :> PoolDict(eK, t2, p2)) :
        t1 \in PoolTypeclasses, p1 \in PoolParents, t2 \in PoolTypeclasses, p2 \in PoolParents}

\* g has the parents e and x, which both have the parent ge
DiamondPool ==
    PoolOf(gK :> PoolDict(gK, "", <<eK, xK>>) @@ eK :> PoolDict(eK, "", <<geK>>)
           @@ xK :> PoolDict(xK, "", <<geK>>) @@ geK :> PoolDict(geK, "Good", <<>>))

\* x has the parent e, e has the parent g, g has the typeclass
ChainPool ==
    PoolOf(xK :> PoolDict(xK, "", <<eK>>) @@ eK :> PoolDict(eK, "", <<gK>>)
           @@ gK :> PoolDict(gK, "Good", <<>>))

\* the same diamond with a typeclass on every prototype
TypedDiamondPool ==
    PoolOf(gK :> PoolDict(gK, "Good", <<eK, xK>>) @@ eK :> PoolDict(eK, "Good", <<geK>>)
           @@ xK :> PoolDict(xK, "Good", <<geK>>) @@ geK :> PoolDict(geK, "Good", <<>>))

Pools == TwoKeyPools \cup {DiamondPool, TypedDiamondPool, ChainPool}

\* dicts validated that are not objects of the pool
LooseDicts ==
    { [prototype_key |-> gK, prototype_parent |-> <<gK>>],
      [prototype_key |-> xK],
      [typeclass |-> "Good"],
      [prototype_key |-> GK, typeclass |-> "Good", prototype_parent |-> <<xK>>] }

ValidateInputs ==
    UNION {{[prototype |-> pool[k], protkey |-> <<>>, protparents |-> pool,
             is_prototype_base |-> b] : k \in {gK, eK, xK} \cap DOMAIN pool, b \in BOOLEAN} :
           pool \in Pools}
    \cup
    {[prototype |-> Obj(<<"entry">>, d), protkey |-> pk, protparents |-> pool,
      is_prototype_base |-> b] :
        d \in LooseDicts, pk \in {<<>>, <<EK>>}, pool \in {EmptyDict, ChainPool}, b \in BOOLEAN}

\* a call from outside: validate_prototype(prototype, protkey, protparents, is_prototype_base)
ValidateCall(input) ==
    /\ vraised = Idle
    /\ stack = <<>>
    /\ vcall' = <<input>>
    /\ stack' = <<Frame(input.prototype, input.protkey, input.protparents,
                        input.is_prototype_base, 0)>>
    /\ vraised' = "running"
    /\ UNCHANGED <<heap, vmessage>>
    /\ UNCHANGED <<storeVars, valueVars, raceVars>>

\* l.540-576: from the assert to the entry of the loop over the parents
ValidateEnter ==
    /\ stack # <<>>
    /\ Top.pc = "enter"
    /\ IF Top.prototype = NoneObj
       THEN RaiseV("AssertionError", <<>>, heap)
       ELSE
       LET ref == IF Top.flags = 0 THEN Len(heap) + 1 ELSE Top.flags
           heap0 == IF Top.flags = 0 THEN Append(heap, FreshFlags) ELSE heap
           parents == IF Top.protparents = EmptyDict
                      THEN DefaultParents(store, modulePrototypes)
                      ELSE Top.protparents
           dict == Top.prototype.dict
           own == Get(dict, "prototype_key", NoKey)
           named == IF Top.protkey # <<>> /\ Lower(Top.protkey[1]) # NoKey
                    THEN Lower(Top.protkey[1]) ELSE own
           protkey == IF named = NoKey THEN Unset ELSE named
           typeclass == Get(dict, "typeclass", "")
           prototype_parent == Get(dict, "prototype_parent", <<>>)
           f0 == heap0[ref]
           f1 == IF named = NoKey THEN AddError(f0, "lacks a prototype_key", Unset) ELSE f0
           f2 == MissingBase(f1, typeclass, prototype_parent, Top.is_prototype_base, protkey)
           f3 == IF typeclass # "" /\ typeclass \notin get_all_typeclasses
                 THEN AddError(f2, "typeclass could not be imported", protkey) ELSE f2
           f4 == IF AlreadyVisited(f3, Top.prototype.oid)
                 THEN AddError(f3, "infinite nesting of prototypes", protkey) ELSE f3
           f5 == [f4 EXCEPT !.visited = Append(@, Top.prototype.oid)]
       IN /\ heap' = [heap0 EXCEPT ![ref] = f5]
          /\ stack' = SetTop([Top EXCEPT !.flags = ref, !.protparents = parents,
                                         !.pc = "loop", !.key = protkey,
                                         !.typeclass = typeclass, !.todo = prototype_parent])
          /\ UNCHANGED <<vcall, vraised, vmessage>>
          /\ UNCHANGED <<storeVars, valueVars, raceVars>>

RecursionError == <<"maximum recursion depth exceeded", NoKey>>

\* l.578-587: one turn of the loop, up to the call
ValidateParent ==
    /\ stack # <<>>
    /\ Top.pc = "loop"
    /\ Top.todo # <<>>
    /\ LET protstring == Lower(Head(Top.todo))
           f0 == heap[Top.flags]
           f1 == IF protstring = Top.key
                 THEN AddError(f0, "tries to parent itself", Top.key) ELSE f0
           protparent == Get(Top.protparents, protstring, NoneObj)
           f2 == [f1 EXCEPT !.depth = @ + 1]
       IN IF protparent = NoneObj \/ protparent.dict = EmptyDict
          \* l.584-585: two fields, one positional argument (a tuple)
          THEN IF FormatRaises(2, 1)
               THEN RaiseV("IndexError", <<>>, [heap EXCEPT ![Top.flags] = f1])
               ELSE RaiseV("AssertionError", <<>>,
                           [heap EXCEPT ![Top.flags] =
                               AddError(f2, "prototype_parent was not found", Top.key)])
          ELSE IF Len(stack) >= MaxStack
               THEN RaiseV("RuntimeError", <<RecursionError>>, [heap EXCEPT ![Top.flags] = f2])
               ELSE /\ heap' = [heap EXCEPT ![Top.flags] = f2]
                    /\ stack' = Append(SetTop([Top EXCEPT !.todo = Tail(@)]),
                                       RecursiveCall(protparent, protstring,
                                                     Top.protparents, Top.flags))
                    /\ UNCHANGED <<vcall, vraised, vmessage>>
                    /\ UNCHANGED <<storeVars, valueVars, raceVars>>

\* l.590-603, and l.588 in the caller when the call returns
ValidateReturn ==
    /\ stack # <<>>
    /\ Top.pc = "loop"
    /\ Top.todo = <<>>
    /\ LET f0 == heap[Top.flags]
           f1 == IF Top.typeclass # "" /\ f0.typeclass = ""
                 THEN [f0 EXCEPT !.typeclass = Top.typeclass] ELSE f0
           f2 == IF Top.is_prototype_base /\ f1.depth <= 0 /\ f1.typeclass = ""
                 THEN AddError(f1, "no typeclass defined anywhere in its parent chain", Top.key)
                 ELSE f1
           heap2 == [heap EXCEPT ![Top.flags] = f2]
       IN IF f2.depth <= 0 /\ f2.errors # <<>>
          THEN RaiseV("RuntimeError", f2.errors, heap2)
          ELSE IF f2.depth <= 0 /\ f2.warnings # <<>>
          THEN RaiseV("RuntimeWarning", f2.warnings, heap2)
          ELSE IF Len(stack) = 1
          THEN /\ stack' = <<>>
               /\ heap' = heap2
               /\ vraised' = "none"
               /\ UNCHANGED <<vcall, vmessage>>
               /\ UNCHANGED <<storeVars, valueVars, raceVars>>
          ELSE LET caller == stack[Len(stack) - 1]
               IN /\ stack' = SubSeq(stack, 1, Len(stack) - 1)
                  /\ heap' = [heap2 EXCEPT ![caller.flags] = [@ EXCEPT !.depth = @ - 1]]
                  /\ UNCHANGED <<vcall, vraised, vmessage>>
                  /\ UNCHANGED <<storeVars, valueVars, raceVars>>

Validate == \E input \in ValidateInputs : ValidateCall(input)

NextValidate == Validate \/ ValidateEnter \/ ValidateParent \/ ValidateReturn

SpecValidate == Init /\ [][NextValidate]_vars

\* C23: the dict stored in every row carries a prototype_key equal to the
\* lower-cased key under which the row is stored.
C23_StoredKeyLowered ==
    \A r \in store :
        /\ r.db_key = Lower(r.db_key)
        /\ Get(r.prototype, "prototype_key", NoKey) = r.db_key

\* C24: the tags of every row are exactly the prototype_tags of the dict stored
\* in it, so that a tag search finds a row by the tags of its dict and by no
\* tag that an update dropped.
C24_RowTagsAreDictTags ==
    \A r \in store :
        LET prototype_tags == Get(r.prototype, "prototype_tags", <<>>)
        IN r.tags = {TagOfTuple(prototype_tags[i]) : i \in 1..Len(prototype_tags)}

\* the keyword arguments lack a usable key or carry a malformed lock string
Rejectable(kwargs) ==
    \/ Get(kwargs, "prototype_key", NoKey) = NoKey
    \/ /\ "prototype_locks" \in DOMAIN kwargs
       /\ ~validate_lockstring(kwargs["prototype_locks"])

\* C17 as stated: a create with a missing or empty prototype_key, or with a
\* lock string that fails validation, raises ValidationError and leaves every
\* row of the table as it was.
C17_RejectedCreateIsValidationError ==
    [][\A kwargs \in CreateInputs :
          (CreateCall(kwargs) /\ Rejectable(kwargs))
          => /\ raised' = "ValidationError"
             /\ store' = store]_vars

\* C17: a create with a missing or empty prototype_key, or with a lock string
\* that fails validation, leaves every row of the table as it was; it raises
\* ValidationError, except that a key declared in a module is refused with
\* PermissionError before the lock string is looked at.
C17_RejectedCreateUnchanged ==
    [][\A kwargs \in CreateInputs :
          (CreateCall(kwargs) /\ Rejectable(kwargs))
          => /\ store' = store
             /\ raised' = IF /\ CallKey(kwargs) # NoKey
                             /\ CallKey(kwargs) \in DOMAIN modulePrototypes
                          THEN "PermissionError" ELSE "ValidationError"]_vars

\* a create was refused with ValidationError while the table held a row
C17_Witness ==
    /\ lastOp = "create_prototype"
    /\ raised = "ValidationError"
    /\ returned = <<>>
    /\ store # {}

\* C19: key lookup does not depend on case: for every key, a search by the
\* key returns the list of prototypes that a search by its lower-cased form
\* returns.
C19_SearchIgnoresCase ==
    \A k \in SearchKeys :
        search_prototype(k, <<>>, store, modulePrototypes)
            = search_prototype(Lower(k), <<>>, store, modulePrototypes)

\* the verdict of the lock string for the action, with no accessing object;
\* the default when the lock string has no clause for the action
LockVerdict(lockstring, action, default) ==
    IF \E i \in 1..Len(lockstring) : lockstring[i][1] = action
    THEN \E i \in 1..Len(lockstring) :
            /\ lockstring[i][1] = action
            /\ LockFuncPasses(lockstring[i][2], NoCaller)
    ELSE default

\* C20: check_permission returns a boolean for every key and action and does
\* not fail: False for 'edit' on a key of the module registry, False when the
\* search finds nothing, and when it finds one prototype the verdict of its
\* lock string, or the default if it has none.
C20_PermissionIsBoolean ==
    [][\A key \in SearchKeys, action \in PermissionActions, default \in BOOLEAN :
          CheckPermissionCall(key, action, default)
          => LET found == search_prototype(key, <<>>, store, modulePrototypes)
             IN /\ raised' = "none"
                /\ \E b \in BOOLEAN : returned' = Verdict(b)
                /\ (action = "edit" /\ key \in DOMAIN modulePrototypes)
                   => returned' = Verdict(FALSE)
                /\ found = <<>> => returned' = Verdict(FALSE)
                /\ (/\ ~(action = "edit" /\ key \in DOMAIN modulePrototypes)
                    /\ Len(found) = 1)
                   => returned' = Verdict(
                         IF Get(found[1], "prototype_locks", <<>>) # <<>>
                         THEN LockVerdict(found[1]["prototype_locks"], action, default)
                         ELSE default)]_vars

-----------------------------------------------------------------------------
(* Two create_prototype calls on one stored key, interleaved (l.284-331).
   Each statement that reads or writes the table is one step; the table
   executes each of them atomically. *)

Racer(kwargs) ==
    [pc |-> "enter", kwargs |-> kwargs, loaded |-> EmptyDict, merged |-> EmptyDict,
     rowid |-> 0, exc |-> "none", ret |-> <<>>]

RowById(records, id) == CHOOSE r \in records : r.id = id

\* the first call of the process fills the table, then two callers update a key
RaceSetup ==
    /\ racers = <<>>
    /\ nops = 0
    /\ Create
    /\ UNCHANGED raceVars

RaceStart(kwargs1, kwargs2) ==
    /\ racers = <<>>
    /\ CallKey(kwargs1) = CallKey(kwargs2)
    /\ FilterDbKey(store, CallKey(kwargs1)) # {}
    /\ racers' = <<Racer(kwargs1), Racer(kwargs2)>>
    /\ UNCHANGED writeOrder
    /\ UNCHANGED <<storeVars, validateVars, valueVars>>

\* l.284-314: the checks, the load of the stored dict and the merge
RaceLoad(p) ==
    /\ racers # <<>>
    /\ racers[p].pc = "enter"
    /\ LET kwargs == racers[p].kwargs
           prototype_key == NormalizeKey(kwargs["prototype_key"])
           stored_prototype == OrderById(FilterDbKey(store, prototype_key))
           prototype == stored_prototype[1].prototype
           prototype_locks == Get(kwargs, "prototype_locks",
                                  Get(prototype, "prototype_locks", DefaultLocks))
       IN /\ stored_prototype # <<>>
          /\ racers' = [racers EXCEPT ![p] =
                IF IsReadOnly(prototype_key, modulePrototypes)
                THEN [@ EXCEPT !.pc = "done", !.exc = "PermissionError"]
                ELSE IF LocksRejected(prototype_locks)
                THEN [@ EXCEPT !.pc = "done", !.exc = "ValidationError",
                               !.loaded = prototype]
                ELSE [@ EXCEPT !.pc = "desc", !.loaded = prototype,
                               !.merged = CreateMerged(kwargs, prototype),
                               !.rowid = stored_prototype[1].id]]
    /\ UNCHANGED writeOrder
    /\ UNCHANGED <<storeVars, validateVars, valueVars>>

\* one write of l.319-324 by caller p to the row it loaded
RaceWrite(p, pc, next, row) ==
    /\ racers # <<>>
    /\ racers[p].pc = pc
    /\ store' = (store \ {RowById(store, racers[p].rowid)}) \cup {row}
    /\ racers' = [racers EXCEPT ![p].pc = next]
    /\ UNCHANGED <<modulePrototypes, globalPrototypeKey, lastOp, raised, returned, nops>>
    /\ UNCHANGED <<validateVars, valueVars>>

\* l.319, and the test of l.320 on the caller's own list
RaceWriteDesc(p) ==
    /\ RaceWrite(p, "desc",
                 IF racers[p].merged["prototype_tags"] # <<>> THEN "clear" ELSE "locks",
                 EditDesc(RowById(store, racers[p].rowid), racers[p].merged))
    /\ UNCHANGED writeOrder

\* l.321
RaceClearTags(p) ==
    /\ RaceWrite(p, "clear", "add", EditTagsClear(RowById(store, racers[p].rowid)))
    /\ UNCHANGED writeOrder

\* l.322
RaceAddTags(p) ==
    /\ RaceWrite(p, "add", "locks",
                 EditTagsAdd(RowById(store, racers[p].rowid), racers[p].merged))
    /\ UNCHANGED writeOrder

RaceWriteLocks(p) ==
    /\ RaceWrite(p, "locks", "mapping",
                 EditLocks(RowById(store, racers[p].rowid), racers[p].merged))
    /\ UNCHANGED writeOrder

RaceWriteMapping(p) ==
    /\ RaceWrite(p, "mapping", "return",
                 EditMapping(RowById(store, racers[p].rowid), racers[p].merged))
    /\ writeOrder' = Append(writeOrder, p)

\* l.331: return stored_prototype.db.prototype
RaceReturn(p) ==
    /\ racers # <<>>
    /\ racers[p].pc = "return"
    /\ racers' = [racers EXCEPT ![p] =
                     [@ EXCEPT !.pc = "done",
                               !.ret = <<RowById(store, racers[p].rowid).prototype>>]]
    /\ UNCHANGED writeOrder
    /\ UNCHANGED <<storeVars, validateVars, valueVars>>

\* the keyword arguments of the second caller
RaceBundles ==
    { [a |-> 1],
      [b |-> 2],
      [prototype_locks |-> MalformedLocks],
      [prototype_desc |-> "d", prototype_locks |-> EditAllLocks,
       prototype_tags |-> <<TupleTag("u", "db_prototype")>>] }

\* two callers that each tag the prototype in the category that l.321 clears
SpawnTagPairs ==
    {<<[prototype_key |-> k, prototype_tags |-> <<TupleTag("w", _PROTOTYPE_TAG_CATEGORY)>>],
       [prototype_key |-> k, prototype_tags |-> <<TupleTag("v", _PROTOTYPE_TAG_CATEGORY)>>]>> :
        k \in {gK, eK}}

RacePairs ==
    {<<k1, Update(bundle, [prototype_key |-> CallKey(k1)])>> :
        k1 \in {k \in CreateInputs : CallKey(k) # NoKey}, bundle \in RaceBundles}
    \cup SpawnTagPairs

Race == \E pair \in RacePairs : RaceStart(pair[1], pair[2])
Load == \E p \in {1, 2} : RaceLoad(p)
WriteDesc == \E p \in {1, 2} : RaceWriteDesc(p)
ClearTags == \E p \in {1, 2} : RaceClearTags(p)
AddTags == \E p \in {1, 2} : RaceAddTags(p)
WriteLocks == \E p \in {1, 2} : RaceWriteLocks(p)
WriteMapping == \E p \in {1, 2} : RaceWriteMapping(p)
Return == \E p \in {1, 2} : RaceReturn(p)

NextRace ==
    RaceSetup \/ Race \/ Load \/ WriteDesc \/ ClearTags \/ AddTags \/ WriteLocks
    \/ WriteMapping \/ Return

SpecRace == Init /\ [][NextRace]_vars

\* both callers have returned or raised
RaceOver == racers # <<>> /\ \A p \in 1..Len(racers) : racers[p].pc = "done"

\* C18: when two updates of one stored key interleave, the stored dict is in
\* the end exactly the dict merged by the update that wrote last, from the
\* version that update had loaded, and the key still has exactly one row.
C18_LastWriterWins ==
    (RaceOver /\ writeOrder # <<>>)
    => LET last == racers[writeOrder[Len(writeOrder)]]
           rows == FilterDbKey(store, CallKey(last.kwargs))
       IN /\ Cardinality(rows) = 1
          /\ \A r \in rows : r.prototype = CreateMerged(last.kwargs, last.loaded)

\* both updates loaded the same version and both wrote: an attribute that only
\* the first writer set is not in the stored dict
C18_Witness ==
    /\ RaceOver
    /\ Len(writeOrder) = 2
    /\ racers[1].loaded = racers[2].loaded
    /\ LET first == racers[writeOrder[1]]
           last == racers[writeOrder[2]]
       IN /\ "a" \in DOMAIN first.kwargs
          /\ "a" \notin DOMAIN last.loaded
          /\ "b" \in DOMAIN last.kwargs
          /\ \A r \in FilterDbKey(store, CallKey(last.kwargs)) :
                "a" \notin DOMAIN r.prototype /\ "b" \in DOMAIN r.prototype

-----------------------------------------------------------------------------
(* Properties of validate_prototype *)

\* the top-level call has returned or raised
Finished == vraised \notin {Idle, "running"}

CallInput == vcall[1]

\* the pool the walk uses
CallParents ==
    IF CallInput.protparents = EmptyDict
    THEN DefaultParents(store, modulePrototypes) ELSE CallInput.protparents

\* the key under which the top-level call reports its prototype
CallProtkey ==
    IF CallInput.protkey # <<>> /\ Lower(CallInput.protkey[1]) # NoKey
    THEN Lower(CallInput.protkey[1])
    ELSE Get(CallInput.prototype.dict, "prototype_key", NoKey)

ParentsOf(dict) == {Lower(k) : k \in Range(Get(dict, "prototype_parent", <<>>))}

Mentions(kind) == \E i \in 1..Len(vmessage) : vmessage[i][1] = kind

\* the entry prototype is an object of the pool, and it and another prototype
\* of the pool name each other as parent
EntryInTwoCycle ==
    \E p, q \in DOMAIN CallParents :
        /\ p # q
        /\ CallInput.prototype = CallParents[p]
        /\ q \in ParentsOf(CallParents[p].dict)
        /\ p \in ParentsOf(CallParents[q].dict)

\* C5: when two prototypes of the pool name each other as parent, validating
\* either of them raises an error whose message mentions infinite nesting.
C5_CycleReported ==
    (Finished /\ EntryInTwoCycle)
    => (vraised = "RuntimeError" /\ Mentions("infinite nesting of prototypes"))

\* C6: a prototype whose prototype_parent names its own key is rejected with an
\* error saying that it tries to parent itself.
C6_SelfParentReported ==
    (Finished /\ CallProtkey # NoKey /\ CallProtkey \in ParentsOf(CallInput.prototype.dict))
    => (vraised = "RuntimeError" /\ Mentions("tries to parent itself"))

\* the validated prototype has a key but neither a typeclass nor a parent
BareEntry ==
    /\ CallProtkey # NoKey
    /\ Get(CallInput.prototype.dict, "typeclass", "") = ""
    /\ Get(CallInput.prototype.dict, "prototype_parent", <<>>) = <<>>

\* C7: a prototype with a key and with neither prototype_parent nor typeclass
\* raises an error when validated as a base (is_prototype_base true), and when
\* validated with is_prototype_base false raises no error, only the
\* RuntimeWarning that it can only be used as a mixin.
C7_BareBaseErrorMixinWarning ==
    (Finished /\ BareEntry)
    => IF CallInput.is_prototype_base
       THEN /\ vraised = "RuntimeError"
            /\ Mentions("requires typeclass or prototype_parent")
       ELSE /\ vraised = "RuntimeWarning"
            /\ vmessage = << <<"can only be used as a mixin", CallProtkey>> >>

\* a bare prototype was validated as a mixin and the warning was raised
C7_Witness ==
    /\ Finished
    /\ BareEntry
    /\ ~CallInput.is_prototype_base
    /\ vraised = "RuntimeWarning"

RECURSIVE Reach(_, _, _)
\* the keys reached from the keys of `from` along parent references, in at most n steps
Reach(pool, from, n) ==
    IF n = 0 THEN from
    ELSE Reach(pool,
               from \cup UNION {ParentsOf(pool[k].dict) : k \in from \cap DOMAIN pool},
               n - 1)

\* the ancestors of the validated prototype
Ancestors ==
    Reach(CallParents, ParentsOf(CallInput.prototype.dict), Cardinality(DOMAIN CallParents))

\* the chain of the validated prototype is acyclic, every parent named in it is
\* in the pool, every typeclass named in it is known, and every prototype of
\* it has a typeclass or a parent
SoundChain ==
    /\ CallProtkey # NoKey
    /\ CallProtkey \notin Ancestors
    /\ Ancestors \subseteq DOMAIN CallParents
    /\ \A k \in Ancestors :
          /\ k \notin Reach(CallParents, ParentsOf(CallParents[k].dict),
                            Cardinality(DOMAIN CallParents))
          /\ Get(CallParents[k].dict, "typeclass", "") \in KnownTypeclasses \cup {""}
          /\ (Get(CallParents[k].dict, "typeclass", "") # ""
              \/ ParentsOf(CallParents[k].dict) # {})

\* C8: a prototype without a typeclass of its own, with a sound parent chain in
\* which some ancestor has a known typeclass, validates as a base.
C8_InheritedTypeclassValidates ==
    (/\ Finished
     /\ CallInput.is_prototype_base
     /\ Get(CallInput.prototype.dict, "typeclass", "") = ""
     /\ SoundChain
     /\ \E k \in Ancestors : Get(CallParents[k].dict, "typeclass", "") \in KnownTypeclasses)
    => vraised = "none"

\* C9: a prototype that names a parent that is not in the pool fails with the
\* validation error that reports the parent as not found.
C9_MissingParentReported ==
    (Finished /\ \E k \in ParentsOf(CallInput.prototype.dict) : k \notin DOMAIN CallParents)
    => (vraised = "RuntimeError" /\ Mentions("prototype_parent was not found"))

\* C21: validate_prototype terminates on every pool, cyclic ones included,
\* because cycle detection bounds the walk: a call ends by returning or by
\* raising its validation error or warning, never by exhausting the
\* interpreter's call stack.
C21_WalkBoundedByCycleDetection ==
    Finished => ~(vraised = "RuntimeError" /\ vmessage = <<RecursionError>>)

\* the parent graph reachable from the validated prototype contains a cycle
HasCycle ==
    \E k \in Ancestors \cap DOMAIN CallParents :
        k \in Reach(CallParents, ParentsOf(CallParents[k].dict),
                    Cardinality(DOMAIN CallParents))

\* an accumulator of the walk holds the error about infinite nesting
NestingRecorded ==
    \E i \in 1..Len(heap) :
        \E j \in 1..Len(heap[i].errors) :
            heap[i].errors[j][1] = "infinite nesting of prototypes"

\* the calls of the walk made so far for the prototype object `oid`
VisitsOf(oid) == {i \in 1..Len(heap) : heap[i].visited # <<>> /\ heap[i].visited[1] = oid}

\* C22: the error about infinite nesting has no false positives: while and
\* after a prototype is validated whose reachable parent graph has no cycle,
\* no call of the walk records the error and the call does not report it,
\* also when one ancestor is reached along two paths (a diamond).
C22_NestingOnlyOnCycles ==
    (vcall # <<>> /\ ~HasCycle)
    => /\ ~NestingRecorded
       /\ Finished => ~Mentions("infinite nesting of prototypes")

\* the walk from the top of a diamond has returned, after it entered the
\* common ancestor once along each of the two paths
C22_Witness ==
    /\ Finished
    /\ vraised = "none"
    /\ CallInput.protparents = TypedDiamondPool
    /\ CallInput.prototype = TypedDiamondPool[gK]
    /\ ~HasCycle
    /\ Cardinality(VisitsOf(TypedDiamondPool[geK].oid)) = 2

\* C16: validation reports once, at the top: the report of errors or warnings
\* is raised by the outermost call only, never by the call made for a parent
\* while frames of the walk are still open below it.
C16_ReportedOnceAtTop ==
    [][(/\ vraised = "running"
        /\ vraised' \in {"RuntimeError", "RuntimeWarning"}
        /\ vmessage' # <<RecursionError>>)
       => Len(stack) = 1]_vars

-----------------------------------------------------------------------------
(* Rewriting of #dbref tokens (l.31, l.94-95) *)

\* A string is a list of characters.
Digits == {"1", "2"}
ObjCall == <<"$", "o", "b", "j", "(">>

\* the strings handed to the rewriting: up to MaxPieces of these, concatenated
Pieces == {ObjCall, <<"#">>, <<"1">>, <<"2">>, <<")">>, <<"x">>, <<"(">>}

RECURSIVE StringsOf(_)
StringsOf(n) ==
    IF n = 0 THEN {<<>>}
    ELSE LET shorter == StringsOf(n - 1)
         IN shorter \cup {s \o piece : s \in shorter, piece \in Pieces}

RewriteInputs == StringsOf(MaxPieces)

\* the lookbehind (?<!\$obj\() of _RE_DBREF at position i, left out
PrecededByObjCallNever(s, i) == FALSE

\* the lookbehind (?<!\$obj\() of _RE_DBREF fails at position i
PrecededByObjCall(s, i) ==
    i > Len(ObjCall) /\ SubSeq(s, i - Len(ObjCall), i - 1) = ObjCall

RECURSIVE DigitsEnd(_, _)
\* the last position of the run of digits that starts at position i
DigitsEnd(s, i) ==
    IF i < Len(s) /\ s[i + 1] \in Digits THEN DigitsEnd(s, i + 1) ELSE i

\* _RE_DBREF matches at position i: (#[0-9]+) not preceded by $obj(
DbrefMatchAt(s, i) ==
    /\ s[i] = "#"
    /\ i < Len(s)
    /\ s[i + 1] \in Digits
    /\ ~PrecededByObjCall(s, i)

RECURSIVE DbrefSubFrom(_, _)
\* _RE_DBREF.sub("$obj(\\1)", value), scanning from position i
DbrefSubFrom(s, i) ==
    IF i > Len(s) THEN <<>>
    ELSE IF DbrefMatchAt(s, i)
         THEN LET j == DigitsEnd(s, i + 1)
              IN ObjCall \o SubSeq(s, i, j) \o <<")">> \o DbrefSubFrom(s, j + 1)
         ELSE <<s[i]>> \o DbrefSubFrom(s, i + 1)

\* l.95
DbrefSub(s) == DbrefSubFrom(s, 1)

ValueDone(op, input, exc, output) ==
    /\ pop' = op
    /\ pin' = input
    /\ praised' = exc
    /\ pout' = output
    /\ UNCHANGED <<storeVars, validateVars, raceVars>>

\* l.95 applied to one string
RewriteCall(s) ==
    /\ pop = Idle
    /\ ValueDone("_RE_DBREF.sub", StrV(s), "none", StrV(DbrefSub(s)))

Rewrite == \E s \in RewriteInputs : RewriteCall(s)

\* C14: the rewriting of #dbref tokens wraps every bare token, leaves a token
\* that follows "$obj(" as it is, and applied to its own output changes
\* nothing; "$obj(#1)" is returned as it is.
C14_RewriteIdempotent ==
    pop = "_RE_DBREF.sub"
    => LET before == pin.text
           after == pout.text
       IN /\ DbrefSub(after) = after
          /\ \A i \in 1..Len(after) :
                (after[i] = "#" /\ i < Len(after) /\ after[i + 1] \in Digits)
                => PrecededByObjCall(after, i)
          /\ (\A i \in 1..Len(before) : ~DbrefMatchAt(before, i)) => after = before
          /\ Len(after) = Len(before) + (Len(ObjCall) + 1) *
                             Cardinality({i \in 1..Len(before) : DbrefMatchAt(before, i)})

\* "$obj(#1)" was rewritten, to itself
C14_Witness ==
    /\ pop = "_RE_DBREF.sub"
    /\ pin = StrV(ObjCall \o <<"#", "1", ")">>)
    /\ pout = pin

-----------------------------------------------------------------------------
(* Prototype values and the helpers that process them (l.56-135, l.192-217) *)

MaxItems == 2

Leaves == {IntV(1), IntV(2), StrV(<<"x">>), NoneV, CallableV("f"), ObjV(1)}

RECURSIVE SeqsUpTo(_, _)
\* the lists of at most n elements of S
SeqsUpTo(S, n) ==
    IF n = 0 THEN {<<>>}
    ELSE LET shorter == SeqsUpTo(S, n - 1)
         IN shorter \cup {Append(q, x) : q \in shorter, x \in S}

FlatValues ==
    Leaves
    \cup {ListV(q) : q \in SeqsUpTo(Leaves, MaxItems)}
    \cup {TupleV(q) : q \in SeqsUpTo(Leaves, MaxItems)}
    \cup {DictV(<< <<k, v>> >>) : k \in Leaves, v \in Leaves}

NestedValues ==
    {ListV(<<c>>) : c \in FlatValues \ Leaves}
    \cup {DictV(<< <<IntV(1), c>> >>) : c \in FlatValues \ Leaves}
    \cup {DictV(<< <<IntV(0), CallableV("f")>> >>)}

HelperValues == FlatValues \cup NestedValues

RECURSIVE IsLiteral(_)
\* the value is built from numbers, strings, None, lists, tuples and dicts only
IsLiteral(v) ==
    CASE v.kind \in {"int", "str", "none"} -> TRUE
      [] v.kind \in {"list", "tuple"} -> \A i \in 1..Len(v.items) : IsLiteral(v.items[i])
      [] v.kind = "dict" ->
            \A i \in 1..Len(v.pairs) : IsLiteral(v.pairs[i][1]) /\ IsLiteral(v.pairs[i][2])
      [] OTHER -> FALSE

DigitOf(n) == CASE n = 0 -> "0" [] n = 1 -> "1" [] n = 2 -> "2" [] OTHER -> "9"

RECURSIVE Repr(_)
RECURSIVE ReprJoin(_)
\* repr(value), as a list of characters; the text of a function or of an
\* object is one character that no literal contains
Repr(v) ==
    CASE v.kind = "int" -> <<DigitOf(v.n)>>
      [] v.kind = "str" -> <<"'">> \o v.text \o <<"'">>
      [] v.kind = "none" -> <<"N", "o", "n", "e">>
      [] v.kind = "callable" -> <<"<function>">>
      [] v.kind = "obj" -> <<"<object>">>
      [] v.kind = "list" -> <<"[">> \o ReprJoin(v.items) \o <<"]">>
      [] v.kind = "tuple" ->
            <<"(">> \o ReprJoin(v.items)
                    \o (IF Len(v.items) = 1 THEN <<",">> ELSE <<>>) \o <<")">>
      [] v.kind = "dict" ->
            <<"{">> \o ReprJoin([i \in 1..Len(v.pairs) |->
                                    [kind |-> "pair", k |-> v.pairs[i][1], v |-> v.pairs[i][2]]])
                    \o <<"}">>
      [] v.kind = "pair" -> Repr(v.k) \o <<":", " ">> \o Repr(v.v)
      [] OTHER -> <<"<result>">>

ReprJoin(items) ==
    IF items = <<>> THEN <<>>
    ELSE IF Len(items) = 1 THEN Repr(items[1])
    ELSE Repr(items[1]) \o <<",", " ">> \o ReprJoin(Tail(items))

\* to_str(value, force_string=True): str(value)
to_str(v) ==
    CASE v.kind = "str" -> v.text
      [] v.kind = "obj" -> <<"B">>
      [] OTHER -> Repr(v)

\* inlinefuncs.parse_inlinefunc on a text without a `$name(` call
parse_inlinefunc(text) == text

\* ast.literal_eval(text): the literal that the text is the repr of, if any
\* (else ValueError or SyntaxError)
Literals == {v \in HelperValues : IsLiteral(v)}
literal_eval(text) ==
    IF \E v \in Literals : Repr(v) = text
    THEN [raised |-> "none", value |-> CHOOSE v \in Literals : Repr(v) = text]
    ELSE [raised |-> "ValueError", value |-> NoneV]

\* l.89-90: a value that is not a string is turned into one
TextOf(value) == IF value.kind # "str" THEN to_str(value) ELSE value.text

\* protfunc_parser(value), l.56-110, testing=False
protfunc_parser(value) ==
    LET text == DbrefSub(TextOf(value))
        result == parse_inlinefunc(text)
        decoded == literal_eval(result)
    IN IF decoded.raised = "none" THEN decoded.value ELSE StrV(result)

\* callable(value)
IsCallable(v) == v.kind = "callable"

\* evennia.utils.utils.is_iter: the value has __iter__
is_iter(v) == v.kind \in {"list", "tuple", "dict"}

\* bool(value)
Truthy(v) ==
    CASE v.kind = "int" -> v.n # 0
      [] v.kind = "str" -> v.text # <<>>
      [] v.kind = "none" -> FALSE
      [] v.kind \in {"list", "tuple"} -> v.items # <<>>
      [] v.kind = "dict" -> v.pairs # <<>>
      [] OTHER -> TRUE

ValueResult(exc, value) == [raised |-> exc, value |-> value]

\* value[0]: the first item of a list or tuple, the value under the key 0 of a dict
ItemZero(v) ==
    IF v.kind = "dict"
    THEN IF \E i \in 1..Len(v.pairs) : v.pairs[i][1] = IntV(0)
         THEN ValueResult("none", v.pairs[CHOOSE i \in 1..Len(v.pairs) : v.pairs[i][1] = IntV(0)][2])
         ELSE ValueResult("KeyError", NoneV)
    ELSE ValueResult("none", v.items[1])

\* init_spawn_value(value), l.192-217, with the default validator
init_spawn_value(input) ==
    LET value == protfunc_parser(input)
    IN IF IsCallable(value)
       THEN ValueResult("none", CalledV(value.name, <<>>))
       ELSE IF Truthy(value) /\ is_iter(value)
       THEN LET first == ItemZero(value)
            IN IF first.raised # "none" THEN first
               ELSE IF IsCallable(first.value)
               \* l.214: value[1:] of a dict raises TypeError
               THEN IF value.kind = "dict" THEN ValueResult("TypeError", NoneV)
                    ELSE ValueResult("none", CalledV(first.value.name, Tail(value.items)))
               ELSE ValueResult("none", value)
       ELSE ValueResult("none", value)

EntityIds == {1}

\* dbid_to_obj(value, ObjectDB): the object with that id, or None
dbid_to_obj(v) ==
    IF v.kind = "obj" THEN v
    ELSE IF v.kind = "int" /\ v.n \in EntityIds THEN ObjV(v.n)
    ELSE NoneV

RECURSIVE value_to_obj_or_any(_)
\* l.126-135
value_to_obj_or_any(value) ==
    IF is_iter(value)
    THEN IF value.kind = "dict"
         THEN DictV([i \in 1..Len(value.pairs) |->
                        <<value_to_obj_or_any(value.pairs[i][1]),
                          value_to_obj_or_any(value.pairs[i][2])>>])
         ELSE [kind |-> value.kind,
               items |-> [i \in 1..Len(value.items) |-> value_to_obj_or_any(value.items[i])]]
    ELSE LET obj == dbid_to_obj(value)
         IN IF obj # NoneV THEN obj ELSE value

\* value_to_obj(value), l.115-123
value_to_obj(value) ==
    IF is_iter(value)
    THEN IF value.kind = "dict"
         \* l.120: value.iter(); a dict has no attribute `iter`
         THEN ValueResult("AttributeError", NoneV)
         ELSE ValueResult("none",
                 [kind |-> value.kind,
                  items |-> [i \in 1..Len(value.items) |-> value_to_obj_or_any(value.items[i])]])
    ELSE ValueResult("none", dbid_to_obj(value))

\* the values handed to protfunc_parser: those whose text has no $name( call
ParserInputs == {v \in HelperValues : "$" \notin Range(DbrefSub(TextOf(v)))}

ProtfuncParserCall(v) ==
    /\ pop = Idle
    /\ ValueDone("protfunc_parser", v, "none", protfunc_parser(v))

InitSpawnValueCall(v) ==
    /\ pop = Idle
    /\ ValueDone("init_spawn_value", v, init_spawn_value(v).raised, init_spawn_value(v).value)

ValueToObjCall(v) ==
    /\ pop = Idle
    /\ ValueDone("value_to_obj", v, value_to_obj(v).raised, value_to_obj(v).value)

ValueToObjOrAnyCall(v) ==
    /\ pop = Idle
    /\ ValueDone("value_to_obj_or_any", v, "none", value_to_obj_or_any(v))

ProtfuncParser == \E v \in ParserInputs : ProtfuncParserCall(v)
InitSpawnValue == \E v \in ParserInputs : InitSpawnValueCall(v)
ValueToObj == \E v \in HelperValues : ValueToObjCall(v)
ValueToObjOrAny == \E v \in HelperValues : ValueToObjOrAnyCall(v)

NextValues == Rewrite \/ ProtfuncParser \/ InitSpawnValue \/ ValueToObj \/ ValueToObjOrAny

SpecValues == Init /\ [][NextValues]_vars

\* C12: init_spawn_value calls a callable and returns the result, calls the
\* callable that heads a non-empty sequence with the rest as arguments, and
\* returns any other value as it is.
C12_SpawnValueDispatch ==
    pop = "init_spawn_value"
    => /\ praised = "none"
       /\ pout = IF IsCallable(pin) THEN CalledV(pin.name, <<>>)
                 ELSE IF pin.kind \in {"list", "tuple"} /\ pin.items # <<>>
                         /\ IsCallable(pin.items[1])
                 THEN CalledV(pin.items[1].name, Tail(pin.items))
                 ELSE pin

\* C13: protfunc_parser returns a value that is not a string as it is.
C13_NonStringPassesThrough ==
    (pop = "protfunc_parser" /\ pin.kind # "str") => (praised = "none" /\ pout = pin)

RECURSIVE StrictCoerce(_)
\* the value with every leaf replaced by the object it identifies, or by None
StrictCoerce(value) ==
    CASE value.kind = "dict" ->
            DictV([i \in 1..Len(value.pairs) |->
                      <<StrictCoerce(value.pairs[i][1]), StrictCoerce(value.pairs[i][2])>>])
      [] value.kind \in {"list", "tuple"} ->
            [kind |-> value.kind,
             items |-> [i \in 1..Len(value.items) |-> StrictCoerce(value.items[i])]]
      [] OTHER -> dbid_to_obj(value)

\* C15: value_to_obj does not fail, keeps the shape of the value and replaces
\* every leaf, at every depth, by the object it identifies or by None.
C15_StrictAtEveryDepth ==
    pop = "value_to_obj" => (praised = "none" /\ pout = StrictCoerce(pin))

====
